---- MODULE Spec2Model ----
(***************************************************************************)
(* A model of the 2048 board engine (src/python/src/board.py) and of the   *)
(* game loop (src/python/src/game.py).                                     *)
(*                                                                         *)
(* A row is the 16-bit integer of the source.  A 64-bit board state is     *)
(* kept as its four 16-bit words, a function on 0..3 whose index is the    *)
(* row_index of the source: word i is (state >> (16 * i)) & 0xFFFF, so     *)
(* word 3 is the most significant one (row 0 of get_unpacked_state).       *)
(***************************************************************************)
EXTENDS Integers, Sequences, FiniteSets

VARIABLES
    is_lookup_tables_initialized, \* Board.__is_lookup_tables_initialized
    tables_built,      \* contents of __left_moves/__right_moves: FALSE = the
                       \* initial [0] * 2**16, TRUE = filled by the build loop
    build_count,       \* history: how many times the build loop has run
    row,               \* the 16-bit row argument of the calls under study
    state,             \* the 64-bit state argument of the calls under study
    called,            \* the last operation called
    ret,               \* what that call returned
    raised,            \* the exception it raised, "none" when it returned
    board,             \* Game2048.board: the state of the game's Board
    move_count,        \* Game2048.move_count
    player,            \* Game2048.player, by its kind
    interface,         \* Game2048.interface, by its kind
    pc,                \* "play_game" while play_game is in its loop
    rng,               \* the state of Python's random generator
    calls,             \* history: calls made on the game so far
    committed,         \* history: play_move calls that returned True since
                       \* the last reset
    reset_done,        \* history: reset has run on this game
    asked,             \* history: the last operation called choose_action
    note,              \* history: the last call made on the interface and
                       \* the arguments passed in it
    verifiers,         \* the functions behind Board.__verify_state and the
                       \* other verifier names: "checks" (the methods of the
                       \* class body) or "noop" (the lambdas)
    original_verifiers, \* Board.original_verifiers: "unset" while the
                       \* attribute does not exist, else what it holds
    empty_cells,       \* Board.__empty_cells: its entries <<state, list>>
                       \* whose state is among TrackedStates
    args               \* the arguments of the last call that took more
                       \* than a row or a sample state

check_vars == <<verifiers, original_verifiers>>
class_vars == <<is_lookup_tables_initialized, tables_built, build_count,
                check_vars>>
arg_vars == <<row, state, args>>
game_vars == <<board, move_count, player, interface, pc, rng, calls,
               committed, reset_done, asked, note>>
vars == <<class_vars, arg_vars, called, ret, raised, game_vars, empty_cells>>

\* How many runs of the table build loop the model follows.
MaxBuilds == 2

Rows == 0 .. 65535

-----------------------------------------------------------------------------
(* Bit operations on non-negative integers.                                *)

\* a | b, bit by bit.
RECURSIVE BitOr(_, _)
BitOr(a, b) ==
    IF a = 0 THEN b
    ELSE IF b = 0 THEN a
    ELSE (IF a % 2 = 1 \/ b % 2 = 1 THEN 1 ELSE 0) + 2 * BitOr(a \div 2, b \div 2)

\* (x >> (4 * k)) & 0xF
Nibble(x, k) == (x \div (16 ^ k)) % 16

\* x << (4 * k)
ShiftNibbles(x, k) == x * (16 ^ k)

\* row = [(i >> 12) & 0xF, (i >> 8) & 0xF, (i >> 4) & 0xF, i & 0xF]
UnpackRow(i) == << Nibble(i, 3), Nibble(i, 2), Nibble(i, 1), Nibble(i, 0) >>

\* (r[0] << 12) | (r[1] << 8) | (r[2] << 4) | r[3].  Entries below 16 fill
\* disjoint bit fields, where | is +.
PackRow(r) ==
    IF r[1] < 16 /\ r[2] < 16 /\ r[3] < 16 /\ r[4] < 16
    THEN r[1] * 4096 + r[2] * 256 + r[3] * 16 + r[4]
    ELSE BitOr(BitOr(BitOr(ShiftNibbles(r[1], 3), ShiftNibbles(r[2], 2)),
                     ShiftNibbles(r[3], 1)),
               r[4])

-----------------------------------------------------------------------------
(* Board._move_left and Board._move_right on lists of four exponents.      *)

\* non_zero = [x for x in row if x != 0]
non_zero(r) == SelectSeq(r, LAMBDA x : x # 0)

\* The while loop of _move_left; i and j are the source's 0-based indices.
RECURSIVE MoveLeftLoop(_, _, _, _, _)
MoveLeftLoop(nz, result, skip, i, j) ==
    IF ~(i < Len(nz)) THEN result
    ELSE IF skip THEN MoveLeftLoop(nz, result, FALSE, i + 1, j)
    ELSE IF i + 1 < Len(nz) /\ nz[i + 1] = nz[i + 2]
         THEN IF nz[i + 1] = 15
              THEN MoveLeftLoop(nz,
                                [result EXCEPT ![j + 1] = nz[i + 1],
                                               ![j + 2] = nz[i + 2]],
                                TRUE, i + 1, j + 2)
              ELSE MoveLeftLoop(nz, [result EXCEPT ![j + 1] = nz[i + 1] + 1],
                                TRUE, i + 1, j + 1)
         ELSE MoveLeftLoop(nz, [result EXCEPT ![j + 1] = nz[i + 1]],
                           FALSE, i + 1, j + 1)

\* Mutant: no guard for two exponents of 15, they merge into 16.
RECURSIVE MergeNoGuard(_)
MergeNoGuard(nz) ==
    IF Len(nz) = 0 THEN <<>>
    ELSE IF Len(nz) >= 2 /\ nz[1] = nz[2]
         THEN <<nz[1] + 1>> \o MergeNoGuard(SubSeq(nz, 3, Len(nz)))
         ELSE <<nz[1]>> \o MergeNoGuard(Tail(nz))

MoveLeftNoGuard(r) ==
    LET m == MergeNoGuard(non_zero(r))
    IN  [k \in 1 .. 4 |-> IF k <= Len(m) THEN m[k] ELSE 0]

\* Mutant: a merged tile merges again with the tile that follows it.
RECURSIVE MergeCascade(_)
MergeCascade(nz) ==
    IF Len(nz) < 2 THEN nz
    ELSE IF nz[1] = nz[2] /\ nz[1] # 15
         THEN MergeCascade(<<nz[1] + 1>> \o SubSeq(nz, 3, Len(nz)))
         ELSE <<nz[1]>> \o MergeCascade(Tail(nz))

MoveLeftCascade(r) ==
    LET m == MergeCascade(non_zero(r))
    IN  [k \in 1 .. 4 |-> IF k <= Len(m) THEN m[k] ELSE 0]

\* Mutant: the guard for two exponents of 15 places only the first of them.
RECURSIVE MergeDrop15(_)
MergeDrop15(nz) ==
    IF Len(nz) < 2 THEN nz
    ELSE IF nz[1] = nz[2]
         THEN <<IF nz[1] = 15 THEN 15 ELSE nz[1] + 1>>
                  \o MergeDrop15(SubSeq(nz, 3, Len(nz)))
         ELSE <<nz[1]>> \o MergeDrop15(Tail(nz))

MoveLeftDrop15(r) ==
    LET m == MergeDrop15(non_zero(r))
    IN  [k \in 1 .. 4 |-> IF k <= Len(m) THEN m[k] ELSE 0]

_move_left(r) == MoveLeftLoop(non_zero(r), <<0, 0, 0, 0>>, FALSE, 0, 0)

\* list(reversed(row))
reversed(r) == [k \in 1 .. Len(r) |-> r[Len(r) + 1 - k]]

_move_right(r) == reversed(_move_left(reversed(r)))

-----------------------------------------------------------------------------
(* The lookup tables.  The build loop of __init_lookup_tables fills every  *)
(* entry in one call, so the tables are either all zero or all computed.   *)

\* Board.__left_moves[i] when the tables are in the state `built'
left_moves(built, i) == IF built THEN PackRow(_move_left(UnpackRow(i))) ELSE 0

\* Board.__right_moves[i]
right_moves(built, i) == IF built THEN PackRow(_move_right(UnpackRow(i))) ELSE 0

-----------------------------------------------------------------------------
(* 64-bit board states, as four 16-bit words.                              *)

\* The state 0xAAAABBBBCCCCDDDD from its four 16-bit groups.
St(a, b, c, d) ==
    [i \in 0 .. 3 |-> IF i = 3 THEN a ELSE IF i = 2 THEN b ELSE IF i = 1 THEN c ELSE d]

\* Board.get_unpacked_state: [(state >> (i * 4)) & 0xF for i in range(15, -1, -1)]
get_unpacked_state(s) ==
    [k \in 1 .. 16 |-> LET i == 16 - k IN Nibble(s[i \div 4], i % 4)]

\* The column `col' of simulate_moves gathered into a 16-bit value:
\* col_value |= tile << (4 * (3 - row_index)), tile taken from rows[row_index].
ColValue(s, col) ==
    PackRow(<< Nibble(s[0], 3 - col), Nibble(s[1], 3 - col),
               Nibble(s[2], 3 - col), Nibble(s[3], 3 - col) >>)

\* new_rows[row_index] |= ((new_col_value >> (4 * (3 - row_index))) & 0xF) << (4 * (3 - col))
ScatterCols(cols, row_index) ==
    PackRow(<< Nibble(cols[1], 3 - row_index), Nibble(cols[2], 3 - row_index),
               Nibble(cols[3], 3 - row_index), Nibble(cols[4], 3 - row_index) >>)

\* Board.simulate_moves with the tables in the state `built':
\* [new_state_left, new_state_right, new_state_up, new_state_down].
\* A table entry is below 2^16, so `|= entry << (16 * row_index)' sets word
\* row_index and no other.
simulate_moves(built, s) ==
    LET up   == << right_moves(built, ColValue(s, 0)), right_moves(built, ColValue(s, 1)),
                  right_moves(built, ColValue(s, 2)), right_moves(built, ColValue(s, 3)) >>
        down == << left_moves(built, ColValue(s, 0)), left_moves(built, ColValue(s, 1)),
                  left_moves(built, ColValue(s, 2)), left_moves(built, ColValue(s, 3)) >>
    IN  << [i \in 0 .. 3 |-> left_moves(built, s[i])],
           [i \in 0 .. 3 |-> right_moves(built, s[i])],
           [i \in 0 .. 3 |-> ScatterCols(up, i)],
           [i \in 0 .. 3 |-> ScatterCols(down, i)] >>

\* Action.LEFT .. Action.DOWN by value.
LEFT == 0
RIGHT == 1
UP == 2
DOWN == 3

\* get_valid_move_actions without the test next_state != state.
get_valid_move_actions_unfiltered(built, s) ==
    LET next_states == simulate_moves(built, s)
    IN  [a \in 1 .. 4 |-> <<a - 1, next_states[a]>>]

\* Board.get_valid_move_actions: the pairs (action value, next state) of the
\* directions whose next state differs from the state.
get_valid_move_actions(built, s) ==
    LET next_states == simulate_moves(built, s)
    IN  SelectSeq([a \in 1 .. 4 |-> <<a - 1, next_states[a]>>],
                  LAMBDA p : p[2] # s)

\* The empty cells listed as (col, row).
empty_tiles_transposed(s) ==
    LET u == get_unpacked_state(s)
        idxs == SelectSeq([k \in 1 .. 16 |-> k - 1], LAMBDA idx : u[idx + 1] = 0)
    IN  [n \in 1 .. Len(idxs) |-> <<idxs[n] % 4, idxs[n] \div 4>>]

\* The body of Board.get_empty_tiles on a cache miss: (idx // 4, idx % 4) of
\* the zero entries of the unpacked state.
empty_tiles_of(s) ==
    LET u == get_unpacked_state(s)
        idxs == SelectSeq([k \in 1 .. 16 |-> k - 1], LAMBDA idx : u[idx + 1] = 0)
    IN  [n \in 1 .. Len(idxs) |-> <<idxs[n] \div 4, idxs[n] % 4>>]

\* Board.set_tile on an empty cell with arguments in range:
\* i = (3 - row) * 4 + (3 - col); state |= value << (i * 4)
set_tile(s, r, c, value) ==
    LET i == (3 - r) * 4 + (3 - c)
    IN  [k \in 0 .. 3 |->
            IF k = i \div 4 THEN BitOr(s[k], ShiftNibbles(value, i % 4)) ELSE s[k]]

RECURSIVE SumPow2(_, _)
SumPow2(u, k) ==
    IF k > Len(u) THEN 0
    ELSE (IF u[k] > 0 THEN 2 ^ u[k] ELSE 0) + SumPow2(u, k + 1)

\* Game2048.get_score on a state: sum([2 ** tile for tile in unpacked if tile > 0])
score_of(s) == SumPow2(get_unpacked_state(s), 1)

-----------------------------------------------------------------------------
(* Operations of the Board class that touch the lookup tables.             *)

\* Would the next call of __init_lookup_tables run the build loop?
\* (its own guard returns early when the flag is already set)
BuildRuns == ~is_lookup_tables_initialized

\* Board.__init_lookup_tables(): the guarded build loop.  It fills both
\* tables and leaves the flag alone.
InitLookupTables ==
    IF BuildRuns
    THEN /\ build_count < MaxBuilds
         /\ tables_built' = TRUE
         /\ build_count' = build_count + 1
    ELSE UNCHANGED <<tables_built, build_count>>

\* Board.__init__ on the class: build the tables unless the flag is set, and
\* set the flag.
BoardInit ==
    /\ IF ~is_lookup_tables_initialized
       THEN /\ InitLookupTables
            /\ is_lookup_tables_initialized' = TRUE
       ELSE UNCHANGED <<is_lookup_tables_initialized, tables_built, build_count>>
    /\ UNCHANGED check_vars

\* Board() or Board(state) with a state that passes __verify_state.
NewBoard ==
    /\ BoardInit
    /\ called' = "Board"
    /\ ret' = 0
    /\ raised' = "none"
    /\ UNCHANGED <<arg_vars, game_vars, empty_cells>>

\* Board._row_left(row): verifies the row and indexes __left_moves.
RowLeft ==
    /\ called' = "_row_left"
    /\ ret' = left_moves(tables_built, row)
    /\ raised' = "none"
    /\ UNCHANGED <<class_vars, arg_vars, game_vars, empty_cells>>

\* Board._row_right(row): verifies the row, builds the tables when the flag
\* is not set (the flag is not set here) and indexes __right_moves.
RowRight ==
    /\ IF ~is_lookup_tables_initialized
       THEN InitLookupTables
       ELSE UNCHANGED <<tables_built, build_count>>
    /\ called' = "_row_right"
    /\ ret' = right_moves(tables_built', row)
    /\ raised' = "none"
    /\ UNCHANGED <<is_lookup_tables_initialized, check_vars, arg_vars,
                   game_vars, empty_cells>>

\* Board._move_left(list) on the unpacked row.
MoveLeft ==
    /\ called' = "_move_left"
    /\ ret' = _move_left(UnpackRow(row))
    /\ raised' = "none"
    /\ UNCHANGED <<class_vars, arg_vars, game_vars, empty_cells>>

\* Board._move_right(list) on the unpacked row.
MoveRight ==
    /\ called' = "_move_right"
    /\ ret' = _move_right(UnpackRow(row))
    /\ raised' = "none"
    /\ UNCHANGED <<class_vars, arg_vars, game_vars, empty_cells>>

\* Board(state) with a state that __verify_state rejects: the constructor
\* raises before it reaches the lookup tables.
NewBoardInvalid ==
    /\ called' = "Board"
    /\ ret' = 0
    /\ raised' = "ValueError"
    /\ UNCHANGED <<class_vars, arg_vars, game_vars, empty_cells>>

\* Board.simulate_moves(state): verifies the state and reads the tables.
SimulateMoves ==
    /\ called' = "simulate_moves"
    /\ ret' = simulate_moves(tables_built, state)
    /\ raised' = "none"
    /\ UNCHANGED <<class_vars, arg_vars, game_vars, empty_cells>>

\* Board.get_valid_move_actions(state)
GetValidMoveActions ==
    /\ called' = "get_valid_move_actions"
    /\ ret' = get_valid_move_actions(tables_built, state)
    /\ raised' = "none"
    /\ UNCHANGED <<class_vars, arg_vars, game_vars, empty_cells>>

\* No call with recorded arguments has been made.
NoArgs == [op |-> "none"]

\* The class as the module is imported: no table built, flag not set.
ClassInit ==
    /\ is_lookup_tables_initialized = FALSE
    /\ tables_built = FALSE
    /\ build_count = 0
    /\ called = "none"
    /\ raised = "none"
    /\ verifiers = "checks"
    /\ original_verifiers = "unset"
    /\ args = NoArgs

\* The class after the first Board() has been constructed.
ClassBuilt ==
    /\ is_lookup_tables_initialized = TRUE
    /\ tables_built = TRUE
    /\ build_count = 1
    /\ called = "Board"
    /\ raised = "none"
    /\ verifiers = "checks"
    /\ original_verifiers = "unset"
    /\ args = NoArgs

-----------------------------------------------------------------------------
(* Spec: the Board class from the import of the module on, called with a   *)
(* row and a state out of the samples below.                               *)

\* The states whose cache entries the model keeps track of.
TrackedStates ==
    { St(0, 0, 0, 0),
      St(\h1100, 0, 0, 0),
      St(\h1234, \h5678, \h90AB, \hCDEF),
      St(\hFFFF, \hFFFF, \hFFFF, \hFFFF) }

\* The states that have an entry in the cache c, and the list kept for s.
cache_keys(c) == { e[1] : e \in c }
cache_entry(c, s) == (CHOOSE e \in c : e[1] = s)[2]

\* The cache c after get_empty_tiles has been called on the states of S: a
\* state with no entry gets the list computed from it, an entry stays.
cached(c, S) ==
    c \cup { <<s, empty_tiles_of(s)>> : s \in (S \cap TrackedStates) \ cache_keys(c) }

\* No call has been made on an interface.
NoNote == [call |-> "none", args |-> {}]

\* No Game2048 object exists: the Board class is used on its own.
NoGame ==
    /\ board = St(0, 0, 0, 0)
    /\ move_count = 0
    /\ player = "none"
    /\ interface = "none"
    /\ pc = "idle"
    /\ rng = 0
    /\ calls = 0
    /\ committed = 0
    /\ reset_done = FALSE
    /\ asked = FALSE
    /\ note = NoNote

SampleRows ==
    { 0, \h0001, \h1100, \h1111, \h1120, \h1122, \h2000, \hFFFF }

SampleStates ==
    { St(0, 0, 0, 0),
      St(\h1100, 0, 0, 0),
      St(0, 0, 0, \h0001),
      St(\h2000, \h2000, \h2000, \h2000),
      St(\h1111, 0, 0, 0),
      St(\h1111, \h1111, \h1111, \h1111),
      St(\h1234, \h5678, \h90AB, \hCDEF),
      St(\h1212, \h2121, \h1212, \h2121),
      St(\hFFFF, \hFFFF, \hFFFF, \hFFF0),
      St(\hFFFF, \hFFFF, \hFFFF, \hFFFF) }

Init ==
    /\ ClassInit
    /\ ret = 0
    /\ row \in SampleRows
    /\ state \in SampleStates
    /\ NoGame
    /\ empty_cells = {}

Next ==
    \/ NewBoard
    \/ NewBoardInvalid
    \/ RowLeft
    \/ RowRight
    \/ SimulateMoves
    \/ GetValidMoveActions

Spec == Init /\ [][Next]_vars

-----------------------------------------------------------------------------
(* SpecRow: once the tables are built, one row operation applied to each   *)
(* 16-bit row, or simulate_moves to the board whose four rows are that     *)
(* row.  The operations are functions of their argument once the flag is   *)
(* set, so one call per behaviour shows all they do.                       *)

InitRow ==
    /\ ClassBuilt
    /\ ret = 0
    /\ row \in Rows
    /\ state = St(row, row, row, row)
    /\ NoGame
    /\ empty_cells = {}

NextRow ==
    \/ called = "Board" /\ RowLeft
    \/ called = "Board" /\ RowRight
    \/ called = "Board" /\ MoveLeft
    \/ called = "Board" /\ MoveRight
    \/ called = "Board" /\ SimulateMoves

SpecRow == InitRow /\ [][NextRow]_vars

-----------------------------------------------------------------------------
(* Game2048 (game.py).  Python's random module is the generator state rng: *)
(* random.choice and random.random each read it and advance it.             *)

\* The generator has RandMod states; a game object takes at most MaxCalls
\* calls from its client.
RandMod == 32
MaxCalls == 2

\* The generator state after one draw.
RandNext(x) == (x * 5 + 3) % RandMod

\* random.choice(seq) with the generator at x: an element of seq.
random_choice(seq, x) == seq[((x * Len(seq)) \div RandMod) + 1]

\* random.random() < 0.9 with the generator at x.
random_below_09(x) == x * 10 < 9 * RandMod

FullBoard == St(\hFFFF, \hFFFF, \hFFFF, \hFFFF)

\* Mutant: the cell is chosen among all 16 cells, empty or not.
add_random_tile_any_cell(s, x) ==
    LET cells == [n \in 1 .. 16 |-> <<(n - 1) \div 4, (n - 1) % 4>>]
        rc == random_choice(cells, x)
        x1 == RandNext(x)
        value == IF random_below_09(x1) THEN 1 ELSE 2
    IN  <<set_tile(s, rc[1], rc[2], value), RandNext(x1)>>

\* Game2048.add_random_tile on the state s with the generator at x:
\* <<the new state, the generator afterwards>>.
add_random_tile(s, x) ==
    LET empty_tiles == empty_tiles_of(s)
    IN  IF Len(empty_tiles) = 0
        THEN <<s, x>>
        ELSE LET rc == random_choice(empty_tiles, x)
                 x1 == RandNext(x)
                 value == IF random_below_09(x1) THEN 1 ELSE 2
             IN  <<set_tile(s, rc[1], rc[2], value), RandNext(x1)>>

\* Player.choose_action(valid_actions) for the kinds of player:
\* <<(action, next_state), the generator afterwards>>.
\*   "first"   returns valid_actions[0]
\*   "random"  RandomPlayer: random.choice(valid_actions)
\*   "invalid" returns (valid_actions[0][0], 0xFFFFFFFFFFFFFFFF)
choose_action(p, valid_actions, x) ==
    CASE p = "first"   -> <<valid_actions[1], x>>
      [] p = "random"  -> <<random_choice(valid_actions, x), RandNext(x)>>
      [] p = "invalid" -> <<<<valid_actions[1][1], FullBoard>>, x>>

\* Mutant: play_move catches what the player raises and reports no move.
play_move_swallows(s, x, p, mc) ==
    LET valid_actions == get_valid_move_actions(tables_built, s)
    IN  IF Len(valid_actions) > 0
        THEN IF p = "raises"
             THEN [ret |-> FALSE, raised |-> "none", board |-> s,
                   rng |-> x, asked |-> TRUE, move_count |-> mc,
                   queried |-> {}]
             ELSE LET chosen == choose_action(p, valid_actions, x)
                      added == add_random_tile(chosen[1][2], chosen[2])
                  IN  [ret |-> TRUE, raised |-> "none", board |-> added[1],
                       rng |-> added[2], asked |-> TRUE, move_count |-> mc,
                       queried |-> { chosen[1][2] }]
        ELSE [ret |-> FALSE, raised |-> "none", board |-> s, rng |-> x,
              asked |-> FALSE, move_count |-> mc, queried |-> {}]

\* Mutant: play_move counts the move itself.
play_move_counting(s, x, p, mc) ==
    LET valid_actions == get_valid_move_actions(tables_built, s)
    IN  IF Len(valid_actions) > 0
        THEN IF p = "raises"
             THEN [ret |-> FALSE, raised |-> "PlayerError", board |-> s,
                   rng |-> x, asked |-> TRUE, move_count |-> mc,
                   queried |-> {}]
             ELSE LET chosen == choose_action(p, valid_actions, x)
                      added == add_random_tile(chosen[1][2], chosen[2])
                  IN  [ret |-> TRUE, raised |-> "none", board |-> added[1],
                       rng |-> added[2], asked |-> TRUE, move_count |-> mc + 1,
                       queried |-> { chosen[1][2] }]
        ELSE [ret |-> FALSE, raised |-> "none", board |-> s, rng |-> x,
              asked |-> FALSE, move_count |-> mc, queried |-> {}]

\* Mutant: play_move asks the player without looking at the list.
play_move_unguarded(s, x, p, mc) ==
    LET valid_actions == get_valid_move_actions(tables_built, s)
    IN  IF Len(valid_actions) = 0
        THEN [ret |-> FALSE, raised |-> IF p = "raises" THEN "PlayerError" ELSE "IndexError",
              board |-> s, rng |-> x, asked |-> TRUE, move_count |-> mc,
              queried |-> {}]
        ELSE IF p = "raises"
             THEN [ret |-> FALSE, raised |-> "PlayerError", board |-> s,
                   rng |-> x, asked |-> TRUE, move_count |-> mc,
                   queried |-> {}]
             ELSE LET chosen == choose_action(p, valid_actions, x)
                      added == add_random_tile(chosen[1][2], chosen[2])
                  IN  [ret |-> TRUE, raised |-> "none", board |-> added[1],
                       rng |-> added[2], asked |-> TRUE, move_count |-> mc,
                       queried |-> { chosen[1][2] }]

\* Game2048.play_move on a game with board state s, generator x, player p
\* and move_count mc: what it returns or raises, the fields afterwards and
\* the states passed to Board.get_empty_tiles (by add_random_tile).
\* A player of kind "raises" raises its own exception ("PlayerError") from
\* choose_action, before set_state.
play_move(s, x, p, mc) ==
    LET valid_actions == get_valid_move_actions(tables_built, s)
    IN  IF Len(valid_actions) > 0
        THEN IF p = "raises"
             THEN [ret |-> FALSE, raised |-> "PlayerError", board |-> s,
                   rng |-> x, asked |-> TRUE, move_count |-> mc,
                   queried |-> {}]
             ELSE LET chosen == choose_action(p, valid_actions, x)
                      added == add_random_tile(chosen[1][2], chosen[2])
                  IN  [ret |-> TRUE, raised |-> "none", board |-> added[1],
                       rng |-> added[2], asked |-> TRUE, move_count |-> mc,
                       queried |-> { chosen[1][2] }]
        ELSE [ret |-> FALSE, raised |-> "none", board |-> s, rng |-> x,
              asked |-> FALSE, move_count |-> mc, queried |-> {}]

\* Mutant: reset places one tile only.
reset_one_tile(x, mc) ==
    LET first == add_random_tile(St(0, 0, 0, 0), x)
    IN  [board |-> first[1], rng |-> first[2], move_count |-> 0,
         queried |-> { St(0, 0, 0, 0) }]

\* Mutant: reset leaves move_count as it is.
reset_keeps_count(x, mc) ==
    LET first == add_random_tile(St(0, 0, 0, 0), x)
        second == add_random_tile(first[1], first[2])
    IN  [board |-> second[1], rng |-> second[2], move_count |-> mc,
         queried |-> { St(0, 0, 0, 0), first[1] }]

\* Game2048.reset with the generator at x and move_count mc: a new Board(),
\* move_count = 0 and two add_random_tile.  queried: the states the two
\* add_random_tile pass to Board.get_empty_tiles.
reset(x, mc) ==
    LET first == add_random_tile(St(0, 0, 0, 0), x)
        second == add_random_tile(first[1], first[2])
    IN  [board |-> second[1], rng |-> second[2], move_count |-> 0,
         queried |-> { St(0, 0, 0, 0), first[1] }]

\* game.play_move() called by the client.  (ret is not read when the call
\* raised.)  In the game's calls ret is the tuple of the values returned:
\* <<>> for None, <<b>> for play_move's boolean, play_game's 3-tuple.
PlayMove ==
    /\ pc = "idle"
    /\ calls < MaxCalls
    /\ \E r \in { play_move(board, rng, player, move_count) } :
           /\ board' = r.board
           /\ rng' = r.rng
           /\ move_count' = r.move_count
           /\ asked' = r.asked
           /\ ret' = <<r.ret>>
           /\ raised' = r.raised
           /\ committed' = IF r.ret THEN committed + 1 ELSE committed
           /\ empty_cells' = cached(empty_cells, r.queried)
    /\ called' = "play_move"
    /\ calls' = calls + 1
    /\ UNCHANGED <<class_vars, arg_vars, player, interface, pc, reset_done, note>>

\* game.reset() called by the client.
Reset ==
    /\ pc = "idle"
    /\ calls < MaxCalls
    /\ BoardInit
    /\ \E r \in { reset(rng, move_count) } :
           /\ board' = r.board
           /\ rng' = r.rng
           /\ move_count' = r.move_count
           /\ empty_cells' = cached(empty_cells, r.queried)
    /\ committed' = 0
    /\ reset_done' = TRUE
    /\ asked' = FALSE
    /\ called' = "reset"
    /\ ret' = <<>>
    /\ raised' = "none"
    /\ calls' = calls + 1
    /\ UNCHANGED <<arg_vars, player, interface, pc, note>>

\* game.add_random_tile() called by the client.
AddRandomTile ==
    /\ pc = "idle"
    /\ calls < MaxCalls
    /\ \E added \in { add_random_tile(board, rng) } :
           /\ board' = added[1]
           /\ rng' = added[2]
    /\ empty_cells' = cached(empty_cells, { board })
    /\ asked' = FALSE
    /\ called' = "add_random_tile"
    /\ ret' = <<>>
    /\ raised' = "none"
    /\ calls' = calls + 1
    /\ UNCHANGED <<class_vars, arg_vars, move_count, player, interface, pc,
                   committed, reset_done, note>>

\* game.play_game() up to its loop: reset(), then
\* self.interface.display_initial_board(state), which raises AttributeError
\* when the interface is None.
PlayGameBegin ==
    /\ pc = "idle"
    /\ calls < MaxCalls
    /\ BoardInit
    /\ \E r \in { reset(rng, move_count) } :
           /\ board' = r.board
           /\ rng' = r.rng
           /\ move_count' = r.move_count
           /\ empty_cells' = cached(empty_cells, r.queried)
    /\ committed' = 0
    /\ reset_done' = TRUE
    /\ asked' = FALSE
    /\ called' = "play_game"
    /\ ret' = <<>>
    /\ calls' = calls + 1
    /\ IF interface = "none"
       THEN raised' = "AttributeError" /\ pc' = "idle" /\ note' = note
       ELSE /\ raised' = "none"
            /\ pc' = "play_game"
            /\ note' = [call |-> "display_initial_board", args |-> { "state" }]
    /\ UNCHANGED <<arg_vars, player, interface>>

\* One turn of `while self.play_move():' in play_game.  When play_move
\* returned True: move_count += 1 and interface.update(state=, move_count=),
\* which raises TypeError for an interface whose update needs score.  When
\* it returned False: return (get_score(), state, move_count).
PlayGameStep ==
    /\ pc = "play_game"
    /\ \E r \in { play_move(board, rng, player, move_count) } :
           /\ board' = r.board
           /\ rng' = r.rng
           /\ asked' = r.asked
           /\ empty_cells' = cached(empty_cells, r.queried)
           /\ IF r.raised # "none"
              THEN /\ move_count' = r.move_count
                   /\ committed' = committed
                   /\ raised' = r.raised
                   /\ ret' = <<>>
                   /\ pc' = "idle"
                   /\ note' = note
              ELSE IF r.ret
              THEN /\ move_count' = r.move_count + 1
                   /\ committed' = committed + 1
                   /\ ret' = <<>>
                   /\ note' = [call |-> "update", args |-> { "state", "move_count" }]
                   /\ IF interface = "strict"
                      THEN raised' = "TypeError" /\ pc' = "idle"
                      ELSE raised' = "none" /\ pc' = "play_game"
              ELSE /\ move_count' = r.move_count
                   /\ committed' = committed
                   /\ raised' = "none"
                   /\ ret' = <<score_of(r.board), r.board, r.move_count>>
                   /\ pc' = "idle"
                   /\ note' = note
    /\ UNCHANGED <<class_vars, arg_vars, called, player, interface, calls,
                   reset_done>>

\* The kinds of player and of interface a game is constructed with.
\*   interface "none"    interface=None
\*             "strict"  GUI2048/CLI2048: update(state, move_count, score)
\*             "lenient" an object whose update accepts (state=, move_count=)
Players == { "first", "random", "invalid", "raises" }
Interfaces == { "none", "strict", "lenient" }

Checkerboard == St(\h1212, \h2121, \h1212, \h2121)
NearFull == St(\hFFFF, \hFFFF, \hFFFF, \hFFF0)

\* The board argument of Game2048(...): <<>> for None, <<s>> for a Board
\* holding the state s (Board() holds the state 0).
SuppliedBoards ==
    { <<>>, <<St(0, 0, 0, 0)>>, <<FullBoard>>, <<Checkerboard>>, <<NearFull>> }

\* Game2048.__init__: a supplied board is taken as it is; without one a
\* new Board() gets tiles while more than 14 cells are empty.
\* <<state, generator, the states passed to Board.get_empty_tiles>>
new_game(b, x) ==
    IF b = <<>>
    THEN LET first == add_random_tile(St(0, 0, 0, 0), x)
             second == add_random_tile(first[1], first[2])
         IN  <<second[1], second[2], { St(0, 0, 0, 0), first[1], second[1] }>>
    ELSE <<b[1], x, {}>>

\* SpecGame: one Game2048 after its construction (so a Board has been
\* constructed and the tables are built), under at most MaxCalls calls.
InitGame ==
    /\ ClassBuilt
    /\ ret = <<>>
    /\ row = 0
    /\ state = St(0, 0, 0, 0)
    /\ \E b \in SuppliedBoards, x \in 0 .. RandMod - 1 :
         \E made \in { new_game(b, x) } :
           /\ board = made[1]
           /\ rng = made[2]
           /\ empty_cells = cached({}, made[3])
    /\ move_count \in { 0, 10 }
    /\ player \in Players
    /\ interface \in Interfaces
    /\ pc = "idle"
    /\ calls = 0
    /\ committed = 0
    /\ reset_done = FALSE
    /\ asked = FALSE
    /\ note = NoNote

NextGame ==
    \/ PlayMove
    \/ Reset
    \/ AddRandomTile
    \/ PlayGameBegin
    \/ PlayGameStep

SpecGame == InitGame /\ [][NextGame]_vars

\* One turn of play_game's while loop as the game's position shows it: the
\* loop goes on with move_count incremented, or play_game returns or raises.
\* In the loop no other step is possible and PlayGameStep is always enabled,
\* so the steps of PlayGameTurn are those of PlayGameStep.
PlayGameTurn ==
    /\ pc = "play_game"
    /\ pc' \in { "play_game", "idle" }
    /\ move_count' \in { move_count, move_count + 1 }

\* play_game is one synchronous call: once in its loop it takes the next turn
\* until it returns or raises.
SpecGameFair == SpecGame /\ WF_<<pc, move_count>>(PlayGameTurn)

-----------------------------------------------------------------------------
(* The verifiers of the Board class and set_tile as a caller reaches it,   *)
(* with any row, column and value and with the verifiers on or off.        *)

\* What a caller passes as a state: an int in [0, 2**64) with its four
\* words, or something __verify_state turns down: a str, a float, None, a
\* negative int, an int of 2**64 or more.
IntState(s) == [kind |-> "int", val |-> s]
NotAState(kind) == [kind |-> kind, val |-> St(0, 0, 0, 0)]
InvalidStates ==
    { NotAState("str"), NotAState("float"), NotAState("negative"),
      NotAState("too_big") }

\* The outcome of a call: the exception raised with its message, or "none"
\* with the value returned.
Raise(e, message) == [raised |-> e, ret |-> message]
Return(value) == [raised |-> "none", ret |-> value]

\* __verify_state without its test of the upper end.
verify_state_unbounded(v, a) ==
    IF v = "noop" THEN "none"
    ELSE IF a.kind \in { "str", "float", "None" } THEN "TypeError"
    ELSE IF a.kind = "negative" THEN "ValueError"
    ELSE "none"

\* Board.__verify_state, or the lambda that disable_verifiers puts in its
\* place: the exception it raises on the argument a, "none" when it returns.
verify_state(v, a) ==
    IF v = "noop" THEN "none"
    ELSE IF a.kind \in { "str", "float", "None" } THEN "TypeError"
    ELSE IF a.kind = "negative" THEN "ValueError"
    ELSE IF a.kind = "too_big" THEN "OverflowError"
    ELSE "none"

\* Board.__verify_row_col or its lambda.
verify_row_col(v, r, c) ==
    IF v = "checks" /\ (r < 0 \/ r > 3 \/ c < 0 \/ c > 3)
    THEN "ValueError" ELSE "none"

\* Board.__verify_value or its lambda.
verify_value(v, value) ==
    IF v = "checks" /\ (value < 0 \/ value > 15)
    THEN "ValueError" ELSE "none"

\* The exception of __verify_state on a with the head of its message.
state_error(v, a) ==
    Raise(verify_state(v, a),
          IF verify_state(v, a) = "TypeError"
          THEN "Invalid state type" ELSE "Invalid state")

\* set_tile with the test of the target nibble left to the verifiers.
set_tile_trusting(v, a, r, c, value) ==
    IF verify_state(v, a) # "none"
    THEN state_error(v, a)
    ELSE IF verify_row_col(v, r, c) # "none"
    THEN Raise("ValueError", "Row and column must be between 0 and 3.")
    ELSE IF verify_value(v, value) # "none"
    THEN Raise("ValueError", "Value must be between 0 and 15.")
    ELSE LET i == (3 - r) * 4 + (3 - c)
         IN  IF v = "checks" /\ Nibble(a.val[i \div 4], i % 4) # 0
             THEN Raise("ValueError", "Tile at given row and column is not empty.")
             ELSE Return(set_tile(a.val, r, c, value))

\* Board.set_tile(state, row, col, value) from its first line: the three
\* verifiers in the order of the source, then the test of the target nibble,
\* which is no verifier and stays when the verifiers are off.
set_tile_call(v, a, r, c, value) ==
    IF verify_state(v, a) # "none"
    THEN state_error(v, a)
    ELSE IF verify_row_col(v, r, c) # "none"
    THEN Raise("ValueError", "Row and column must be between 0 and 3.")
    ELSE IF verify_value(v, value) # "none"
    THEN Raise("ValueError", "Value must be between 0 and 15.")
    ELSE LET i == (3 - r) * 4 + (3 - c)
         IN  IF Nibble(a.val[i \div 4], i % 4) # 0
             THEN Raise("ValueError", "Tile at given row and column is not empty.")
             ELSE Return(set_tile(a.val, r, c, value))

\* The states set_tile is called with: the empty board, the boards of
\* test_set_tile_3 and test_set_tile_boundary_values (one tile at (1, 2), at
\* (0, 0), at (3, 3)), a board with every exponent, and the values that are
\* no states.
TileStates ==
    { IntState(St(0, 0, 0, 0)),
      IntState(St(0, \h0020, 0, 0)),
      IntState(St(\h2000, 0, 0, 0)),
      IntState(St(0, 0, 0, \h000F)),
      IntState(St(\h0123, \h4567, \h89AB, \hCDEF)) } \cup InvalidStates

\* Rows and columns: the range 0..3 and one step outside on each side.
TileCoords == -1 .. 4

\* Values: the ends of 0..15, the two values the game places, and one step
\* outside on each side.
TileValues == { -1, 0, 1, 2, 15, 16 }

\* With the verifiers off the callers (benchmark.py, main.py, through
\* Game2048.add_random_tile) pass a state and a cell and value in range;
\* with the verifiers on any argument is followed.
InDomain(v, a, r, c, value) ==
    v = "noop" =>
        /\ a.kind = "int"
        /\ r \in 0 .. 3
        /\ c \in 0 .. 3
        /\ value \in 0 .. 15

\* Board.set_tile(state, row, col, value), a static method: no attribute of
\* the class or of a board is assigned.  The arguments come out of the sets
\* A, Coords and Values.
SetTileFrom(A, Coords, Values) ==
    \E a \in A, r \in Coords, c \in Coords, value \in Values :
        /\ InDomain(verifiers, a, r, c, value)
        /\ \E out \in { set_tile_call(verifiers, a, r, c, value) } :
            /\ raised' = out.raised
            /\ ret' = out.ret
        /\ called' = "set_tile"
        /\ args' = [op |-> "set_tile", state |-> a, row |-> r, col |-> c,
                    value |-> value]
        /\ UNCHANGED <<class_vars, row, state, game_vars, empty_cells>>

SetTile == SetTileFrom(TileStates, TileCoords, TileValues)

\* Board.disable_verifiers(): keeps the functions now behind the verifier
\* names in Board.original_verifiers and puts the lambdas in their place.
DisableVerifiers ==
    /\ original_verifiers' = verifiers
    /\ verifiers' = "noop"
    /\ called' = "disable_verifiers"
    /\ ret' = 0
    /\ raised' = "none"
    /\ args' = NoArgs
    /\ UNCHANGED <<is_lookup_tables_initialized, tables_built, build_count,
                   row, state, game_vars, empty_cells>>

\* Board.enable_verifiers(): reads Board.original_verifiers, an attribute
\* that exists only once disable_verifiers has run, and puts what it holds
\* behind the verifier names.
EnableVerifiers ==
    /\ IF original_verifiers = "unset"
       THEN /\ raised' = "AttributeError"
            /\ UNCHANGED verifiers
       ELSE /\ raised' = "none"
            /\ verifiers' = original_verifiers
    /\ called' = "enable_verifiers"
    /\ ret' = 0
    /\ args' = NoArgs
    /\ UNCHANGED <<is_lookup_tables_initialized, tables_built, build_count,
                   original_verifiers, row, state, game_vars, empty_cells>>

\* The class with its tables built and no game.
InitTile ==
    /\ ClassBuilt
    /\ ret = 0
    /\ row = 0
    /\ state = St(0, 0, 0, 0)
    /\ NoGame
    /\ empty_cells = {}

NextTile ==
    \/ SetTile
    \/ DisableVerifiers
    \/ EnableVerifiers

SpecTile == InitTile /\ [][NextTile]_vars

-----------------------------------------------------------------------------
(* The operations of Board that take a state from the caller, called on    *)
(* one Board object (its __state is the variable board) with states and    *)
(* with values that are no states.                                         *)

\* The fields of a game other than its board.
loop_vars == <<move_count, player, interface, pc, rng, calls, committed,
               reset_done, asked, note>>

\* Board() and Board(None): no state is handed over (state: int = None).
NoState == [kind |-> "None", val |-> St(0, 0, 0, 0)]

\* The states the operations are called with, and the values of the tests
\* that are no states.
OpStates ==
    { IntState(St(0, 0, 0, 0)),
      IntState(St(\h1100, 0, 0, 0)),
      IntState(St(\h1234, \h5678, \h90AB, \hCDEF)),
      IntState(FullBoard),
      NoState } \cup InvalidStates

\* With the verifiers off the callers pass states only.
StateInDomain(v, a) == v = "noop" => a.kind = "int"

\* The call op(a) recorded in the history variables.
Called(op, a, out) ==
    /\ called' = op
    /\ args' = [op |-> op, state |-> a]
    /\ raised' = out.raised
    /\ ret' = out.ret

\* An operation whose first statement is Board.__verify_state(state) and
\* which then computes value from the state.
verified(v, a, value) ==
    IF verify_state(v, a) # "none" THEN state_error(v, a) ELSE Return(value)

\* Board(state): None stands for no state and gives the empty board; any
\* other value is verified before it is kept, and the lookup tables are
\* looked at after that.
BoardWith ==
    \E a \in OpStates :
        /\ a.kind # "None" => StateInDomain(verifiers, a)
        /\ IF a.kind = "None"
           THEN /\ board' = St(0, 0, 0, 0)
                /\ BoardInit
                /\ Called("Board", a, Return(0))
           ELSE IF verify_state(verifiers, a) # "none"
           THEN /\ Called("Board", a, state_error(verifiers, a))
                /\ UNCHANGED <<board, class_vars>>
           ELSE /\ board' = a.val
                /\ BoardInit
                /\ Called("Board", a, Return(0))
        /\ UNCHANGED <<row, state, loop_vars, empty_cells>>

\* board.set_state(state): verify, then assign.
SetState ==
    \E a \in OpStates :
        /\ StateInDomain(verifiers, a)
        /\ \E out \in { verified(verifiers, a, 0) } :
            /\ Called("set_state", a, out)
            /\ board' = IF out.raised = "none" THEN a.val ELSE board
        /\ UNCHANGED <<class_vars, row, state, loop_vars, empty_cells>>

\* Board.simulate_moves(state)
SimulateMovesWith ==
    \E a \in OpStates :
        /\ StateInDomain(verifiers, a)
        /\ Called("simulate_moves", a,
                  verified(verifiers, a, simulate_moves(tables_built, a.val)))
        /\ UNCHANGED <<class_vars, row, state, game_vars, empty_cells>>

\* Board.get_valid_move_actions(state): the state is verified by the
\* simulate_moves it calls first.
GetValidMoveActionsWith ==
    \E a \in OpStates :
        /\ StateInDomain(verifiers, a)
        /\ Called("get_valid_move_actions", a,
                  verified(verifiers, a,
                           get_valid_move_actions(tables_built, a.val)))
        /\ UNCHANGED <<class_vars, row, state, game_vars, empty_cells>>

\* Board.get_empty_tiles(state): verify, then answer from __empty_cells or
\* compute the list and store it there.
GetEmptyTiles ==
    \E a \in OpStates :
        /\ StateInDomain(verifiers, a)
        /\ \E out \in { verified(verifiers, a,
                                 IF a.val \in cache_keys(empty_cells)
                                 THEN cache_entry(empty_cells, a.val)
                                 ELSE empty_tiles_of(a.val)) } :
            /\ Called("get_empty_tiles", a, out)
            /\ empty_cells' = IF out.raised = "none"
                              THEN cached(empty_cells, { a.val })
                              ELSE empty_cells
        /\ UNCHANGED <<class_vars, row, state, game_vars>>

\* What get_empty_cells returns is a list on one path and a dict on the
\* other: the value with its Python type.
a_list(value) == [type |-> "list", value |-> value]
a_dict(value) == [type |-> "dict", value |-> value]

\* Board.get_empty_cells(state): verify, then return the list kept for the
\* state, or, when there is none, compute the list, keep it and return
\* Board.__empty_cells, the dict itself.
GetEmptyCells ==
    \E a \in OpStates :
        /\ StateInDomain(verifiers, a)
        /\ IF verify_state(verifiers, a) # "none"
           THEN /\ Called("get_empty_cells", a, state_error(verifiers, a))
                /\ UNCHANGED empty_cells
           ELSE IF a.val \in cache_keys(empty_cells)
           THEN /\ Called("get_empty_cells", a,
                          Return(a_list(cache_entry(empty_cells, a.val))))
                /\ UNCHANGED empty_cells
           ELSE /\ empty_cells' = cached(empty_cells, { a.val })
                /\ Called("get_empty_cells", a,
                          Return(a_dict(empty_cells')))
        /\ UNCHANGED <<class_vars, row, state, game_vars>>

\* Board.reset(): Board.__empty_cells = {}
BoardReset ==
    /\ empty_cells' = {}
    /\ called' = "Board.reset"
    /\ ret' = 0
    /\ raised' = "none"
    /\ args' = NoArgs
    /\ UNCHANGED <<class_vars, row, state, game_vars>>

\* Board.get_unpacked_state(state)
GetUnpackedState ==
    \E a \in OpStates :
        /\ StateInDomain(verifiers, a)
        /\ Called("get_unpacked_state", a,
                  verified(verifiers, a, get_unpacked_state(a.val)))
        /\ UNCHANGED <<class_vars, row, state, game_vars, empty_cells>>

\* Board.pretty_print(state): verify, then print; returns None.
PrettyPrint ==
    \E a \in OpStates :
        /\ StateInDomain(verifiers, a)
        /\ Called("pretty_print", a, verified(verifiers, a, 0))
        /\ UNCHANGED <<class_vars, row, state, game_vars, empty_cells>>

\* Board.set_tile(state, 3, 3, 1) on the same states.
SetTileWith == SetTileFrom(OpStates, { 3 }, { 1 })

\* One Board object made by Board(), the tables built by its constructor.
InitOps ==
    /\ ClassBuilt
    /\ ret = 0
    /\ row = 0
    /\ state = St(0, 0, 0, 0)
    /\ NoGame
    /\ empty_cells = {}

NextOps ==
    \/ BoardWith
    \/ SetState
    \/ SimulateMovesWith
    \/ GetValidMoveActionsWith
    \/ GetEmptyTiles
    \/ GetEmptyCells
    \/ BoardReset
    \/ GetUnpackedState
    \/ SetTileWith
    \/ PrettyPrint
    \/ DisableVerifiers
    \/ EnableVerifiers

SpecOps == InitOps /\ [][NextOps]_vars

-----------------------------------------------------------------------------
(* The players of players.py, each given the valid moves of a state.       *)

Abs(x) == IF x < 0 THEN 0 - x ELSE x

\* f[1] + ... + f[n]
RECURSIVE SumUpTo(_, _)
SumUpTo(f, n) == IF n = 0 THEN 0 ELSE f[n] + SumUpTo(f, n - 1)

\* Python's max(seq, key=...): the first of the entries with the largest
\* key, keys[j] being the key of seq[j].
max_by_key(seq, keys) ==
    seq[CHOOSE k \in 1 .. Len(seq) :
            /\ \A j \in 1 .. Len(seq) : keys[j] <= keys[k]
            /\ \A j \in 1 .. (k - 1) : keys[j] < keys[k]]

\* The last of the entries with the largest key.
max_by_key_last(seq, keys) ==
    seq[CHOOSE k \in 1 .. Len(seq) :
            /\ \A j \in 1 .. Len(seq) : keys[j] <= keys[k]
            /\ \A j \in (k + 1) .. Len(seq) : keys[j] < keys[k]]

\* MinMaxPlayer.evaluate_state: sum of 2 ** tile over the tiles > 0.
MinMaxPlayer_evaluate_state(s) == SumPow2(get_unpacked_state(s), 1)

\* MinMaxPlayer with the last of the best moves.
MinMaxPlayer_choose_last(valid_actions) ==
    max_by_key_last(valid_actions,
        [j \in 1 .. Len(valid_actions) |->
            MinMaxPlayer_evaluate_state(valid_actions[j][2])])

\* MinMaxPlayer.choose_action: max(valid_actions, key=evaluate_state(x[1]))
MinMaxPlayer_choose_action(valid_actions) ==
    max_by_key(valid_actions,
        [j \in 1 .. Len(valid_actions) |->
            MinMaxPlayer_evaluate_state(valid_actions[j][2])])

\* The evaluation shared by HeuristicPlayer.evaluate_state and
\* ExpectimaxPlayer.evaluate_state: empty cells, monotonicity (minus the
\* differences of adjacent exponents along rows and columns), smoothness
\* (minus the differences of adjacent tile values, right and bottom
\* neighbours, both non-empty) and the largest exponent, each times its
\* weight.  The weights are whole numbers held as floats.
weighted_evaluation(s, empty_weight, monotonicity_weight, smoothness_weight, max_tile_weight) ==
    LET b == get_unpacked_state(s)
        at(r, c) == b[r * 4 + c + 1]
        empties == Cardinality({ k \in 1 .. 16 : b[k] = 0 })
        line(x, y, z, w) == Abs(x - y) + Abs(y - z) + Abs(z - w)
        row_monotonicity ==
            SumUpTo([r \in 1 .. 4 |->
                        line(at(r - 1, 0), at(r - 1, 1), at(r - 1, 2), at(r - 1, 3))], 4)
        col_monotonicity ==
            SumUpTo([c \in 1 .. 4 |->
                        line(at(0, c - 1), at(1, c - 1), at(2, c - 1), at(3, c - 1))], 4)
        monotonicity == 0 - (row_monotonicity + col_monotonicity)
        apart(r, c) ==
            IF at(r, c) = 0 THEN 0
            ELSE (IF c < 3 /\ at(r, c + 1) # 0
                  THEN Abs(2 ^ at(r, c) - 2 ^ at(r, c + 1)) ELSE 0)
                 + (IF r < 3 /\ at(r + 1, c) # 0
                    THEN Abs(2 ^ at(r, c) - 2 ^ at(r + 1, c)) ELSE 0)
        smoothness ==
            0 - SumUpTo([k \in 1 .. 16 |-> apart((k - 1) \div 4, (k - 1) % 4)], 16)
        max_tile == CHOOSE m \in { b[k] : k \in 1 .. 16 } :
                        \A k \in 1 .. 16 : b[k] <= m
    IN  empties * empty_weight + monotonicity * monotonicity_weight
        + smoothness * smoothness_weight + max_tile * max_tile_weight

\* HeuristicPlayer.evaluate_state with its weights 270.0, 47.0, 15.0, 100.0.
HeuristicPlayer_evaluate_state(s) == weighted_evaluation(s, 270, 47, 15, 100)

\* HeuristicPlayer.choose_action
HeuristicPlayer_choose_action(valid_actions) ==
    max_by_key(valid_actions,
        [j \in 1 .. Len(valid_actions) |->
            HeuristicPlayer_evaluate_state(valid_actions[j][2])])

\* ExpectimaxPlayer.evaluate_state with the weights of its __init__:
\* 270.0, 470.0, 15.0, 100.0.
ExpectimaxPlayer_evaluate_state(s) == weighted_evaluation(s, 270, 470, 15, 100)

\* ExpectimaxPlayer.expectimax(state, 0, is_player_turn): at depth 0 the
\* cutoff returns evaluate_state(state), whatever the valid moves are.
expectimax_at_cutoff(s) == ExpectimaxPlayer_evaluate_state(s)

\* The loop of ExpectimaxPlayer.choose_action from entry k on: best is <<>>
\* while best_value is -inf, else <<best_move, best_value>>; a move replaces
\* the best one when its value is larger.
RECURSIVE expectimax_scan(_, _, _)
expectimax_scan(valid_actions, k, best) ==
    IF k > Len(valid_actions) THEN best
    ELSE LET value == expectimax_at_cutoff(valid_actions[k][2])
         IN  expectimax_scan(valid_actions, k + 1,
                IF best = <<>> \/ value > best[2]
                THEN <<valid_actions[k], value>> ELSE best)

\* ExpectimaxPlayer(depth=0).choose_action on a list that is not empty.
ExpectimaxPlayer_choose_action(valid_actions) ==
    expectimax_scan(valid_actions, 1, <<>>)[1]

\* What the user types at the prompt of HumanPlayer.choose_action.
Keys == { "a", "A", "d", "D", "w", "W", "s", "S", "q", "x", "", "aa", "left" }

\* str.lower() on those strings.
lower(key) ==
    IF key = "A" THEN "a"
    ELSE IF key = "D" THEN "d"
    ELSE IF key = "W" THEN "w"
    ELSE IF key = "S" THEN "s"
    ELSE key

\* The action HumanPlayer reads out of the string; -1 stands for None.
key_action(action_str) ==
    IF lower(action_str) = "a" THEN LEFT
    ELSE IF lower(action_str) = "d" THEN RIGHT
    ELSE IF lower(action_str) = "w" THEN UP
    ELSE IF lower(action_str) = "s" THEN DOWN
    ELSE -1

\* One turn of the loop of HumanPlayer.choose_action that takes whatever was
\* typed and returns the first move of the list.
human_turn_trusting(valid_actions, action_str) ==
    [returns |-> TRUE, ret |-> valid_actions[1]]

\* One turn of the loop of HumanPlayer.choose_action: the first pair of the
\* list whose action is the one typed is returned; the else of the for loop
\* prints "Invalid action." and the loop asks again.
human_turn(valid_actions, action_str) ==
    LET action == key_action(action_str)
        hits == SelectSeq(valid_actions, LAMBDA p : p[1] = action)
    IN  IF hits # <<>>
        THEN [returns |-> TRUE, ret |-> hits[1]]
        ELSE [returns |-> FALSE, ret |-> 0]

\* Boards a game starts from: two tiles, the first of exponent 1 or 2, the
\* second of exponent 1.
TwoTileStates ==
    { set_tile(set_tile(St(0, 0, 0, 0), i \div 4, i % 4, v), j \div 4, j % 4, 1) :
        <<i, j, v>> \in { q \in (0 .. 15) \X (0 .. 15) \X { 1, 2 } : q[1] < q[2] } }

\* The states whose valid moves the players are given.
PlayerStates == SampleStates \cup TwoTileStates

\* The list handed to choose_action.
valid_actions_now == get_valid_move_actions(tables_built, state)

\* A call of choose_action that is not HumanPlayer's, with what it returned.
Chose(name, kind, move) ==
    /\ pc = "idle"
    /\ valid_actions_now # <<>>
    /\ called' = name
    /\ player' = kind
    /\ ret' = move
    /\ raised' = "none"
    /\ args' = [op |-> "choose_action"]
    /\ UNCHANGED <<class_vars, row, state, board, move_count, interface, pc,
                   rng, calls, committed, reset_done, asked, note, empty_cells>>

MinMaxChoose ==
    Chose("MinMaxPlayer.choose_action", "minmax",
          MinMaxPlayer_choose_action(valid_actions_now))

HeuristicChoose ==
    Chose("HeuristicPlayer.choose_action", "heuristic",
          HeuristicPlayer_choose_action(valid_actions_now))

ExpectimaxChoose ==
    Chose("ExpectimaxPlayer.choose_action", "expectimax0",
          ExpectimaxPlayer_choose_action(valid_actions_now))

\* HumanPlayer.choose_action is called and reaches its prompt.
HumanChoose ==
    /\ pc = "idle"
    /\ valid_actions_now # <<>>
    /\ pc' = "input"
    /\ called' = "HumanPlayer.choose_action"
    /\ player' = "human"
    /\ ret' = 0
    /\ raised' = "none"
    /\ args' = [op |-> "choose_action"]
    /\ UNCHANGED <<class_vars, row, state, board, move_count, interface,
                   rng, calls, committed, reset_done, asked, note, empty_cells>>

\* The user types a string at the prompt.
HumanInput ==
    /\ pc = "input"
    /\ \E action_str \in Keys :
        /\ args' = [op |-> "input", key |-> action_str]
        /\ \E turn \in { human_turn(valid_actions_now, action_str) } :
            /\ pc' = IF turn.returns THEN "idle" ELSE "input"
            /\ ret' = turn.ret
    /\ UNCHANGED <<class_vars, row, state, called, raised, board, move_count,
                   player, interface, rng, calls, committed, reset_done,
                   asked, note, empty_cells>>

\* The class before or after the first Board(), a state, no call yet.
InitPlayers ==
    /\ \/ ClassInit
       \/ ClassBuilt
    /\ ret = 0
    /\ row = 0
    /\ state \in PlayerStates
    /\ NoGame
    /\ empty_cells = {}

NextPlayers ==
    \/ MinMaxChoose
    \/ HeuristicChoose
    \/ ExpectimaxChoose
    \/ HumanChoose
    \/ HumanInput

SpecPlayers == InitPlayers /\ [][NextPlayers]_vars

-----------------------------------------------------------------------------
(* The reference slide the claims compare the code with.                   *)

\* r[1] * 16^3 + r[2] * 16^2 + r[3] * 16 + r[4]
RefPack(r) == r[1] * 4096 + r[2] * 256 + r[3] * 16 + r[4]

\* Drop the zeros, keeping order.
RefNonZero(r) == SelectSeq(r, LAMBDA x : x > 0)

\* Scan left to right; a pair of equal exponents below 15 becomes one tile of
\* exponent + 1 and is not looked at again.
RECURSIVE RefMerge(_)
RefMerge(t) ==
    IF Len(t) <= 1 THEN t
    ELSE IF t[1] = t[2] /\ t[1] < 15
         THEN <<t[1] + 1>> \o RefMerge(Tail(Tail(t)))
         ELSE <<t[1]>> \o RefMerge(Tail(t))

\* The same scan with every pair of equal exponents merged, 15s included.
RECURSIVE RefMergeAnyPair(_)
RefMergeAnyPair(t) ==
    IF Len(t) <= 1 THEN t
    ELSE IF t[1] = t[2]
         THEN <<t[1] + 1>> \o RefMergeAnyPair(Tail(Tail(t)))
         ELSE <<t[1]>> \o RefMergeAnyPair(Tail(t))

\* Compact against the left edge and zero-fill the rest.
RefPad(t) == [k \in 1 .. 4 |-> IF k <= Len(t) THEN t[k] ELSE 0]

RefSlide(r) == RefPad(RefMerge(RefNonZero(r)))
RefSlideAnyPair(r) == RefPad(RefMergeAnyPair(RefNonZero(r)))

\* The four nibbles of a row, most significant first, and the row reversed.
RefUnpack(x) == << (x \div 4096) % 16, (x \div 256) % 16, (x \div 16) % 16, x % 16 >>
RefReverse(x) == LET u == RefUnpack(x) IN RefPack(<<u[4], u[3], u[2], u[1]>>)

RefLeft(x) == RefPack(RefSlide(RefUnpack(x)))
RefRight(x) == RefReverse(RefLeft(RefReverse(x)))

\* How many entries of a list are 15.
Count15(r) == Cardinality({k \in 1 .. Len(r) : r[k] = 15})

-----------------------------------------------------------------------------
(* C1 *)

\* C1 (as claimed): once the tables are built, _row_left(r) is the packed
\* result of the slide that merges each pair of equal adjacent exponents.
C1_AsClaimed ==
    (called = "_row_left" /\ tables_built)
        => ret = RefPack(RefSlideAnyPair(RefUnpack(row)))

\* C1 (amended): once the tables are built, for every 16-bit row r,
\* _row_left(r) is the packed result of the reference slide in which a pair
\* of equal adjacent exponents merges only when the exponent is below 15,
\* and _row_right(r) is reverse(left(reverse(r))); 0x1100 -> 0x2000,
\* 0x1111 -> 0x2200 (left) and 0x0022 (right), 0x1122 -> 0x2300.
C1_RowMovesMatchReference ==
    /\ (called = "_row_left" /\ tables_built) => ret = RefLeft(row)
    /\ (called = "_row_right" /\ tables_built)
          => /\ ret = RefRight(row)
             /\ ret = RefReverse(left_moves(tables_built, RefReverse(row)))
    /\ (called = "_row_left" /\ tables_built /\ row = \h1100) => ret = \h2000
    /\ (called = "_row_left" /\ tables_built /\ row = \h1111) => ret = \h2200
    /\ (called = "_row_right" /\ tables_built /\ row = \h1111) => ret = \h0022
    /\ (called = "_row_left" /\ tables_built /\ row = \h1122) => ret = \h2300

C1_Witness ==
    /\ called = "_row_left"
    /\ tables_built
    /\ row = \h1122
    /\ ret = \h2300

-----------------------------------------------------------------------------
(* C4 *)

-----------------------------------------------------------------------------
(* C5 *)

\* No two equal adjacent non-empty exponents below 15.
NoMergeablePair(r) ==
    \A k \in 1 .. 3 : ~(r[k] = r[k + 1] /\ r[k] > 0 /\ r[k] < 15)

\* C5 (as claimed): moveLeft(moveLeft(r)) = moveLeft(r) for every row r.
C5_AsClaimed ==
    called = "_row_left" => left_moves(tables_built, ret) = ret

\* C5 (amended): for every row r, moveLeft(moveLeft(r)) = moveLeft(r) exactly
\* when moveLeft(r) has no two equal adjacent non-empty exponents below 15;
\* otherwise the second move merges again (0x1120 -> 0x2200 -> 0x3000).
C5_SecondMoveMergesAgain ==
    called = "_row_left"
        => (left_moves(tables_built, ret) = ret <=> NoMergeablePair(RefUnpack(ret)))

C5_Witness ==
    /\ called = "_row_left"
    /\ row = \h1120
    /\ ret = \h2200
    /\ left_moves(tables_built, ret) = \h3000

-----------------------------------------------------------------------------
(* C2, C3 *)

\* The board as the grid of get_unpacked_state: entry (r, c), r and c in 0..3.
RefGrid(s) == [r \in 0 .. 3 |-> [c \in 0 .. 3 |-> get_unpacked_state(s)[4 * r + c + 1]]]

\* The state whose grid is g.
RefState(g) == [i \in 0 .. 3 |-> RefPack(<<g[3 - i][0], g[3 - i][1], g[3 - i][2], g[3 - i][3]>>)]

RefRev(t) == <<t[4], t[3], t[2], t[1]>>

RefMoveLeft(s) ==
    LET g == RefGrid(s)
        line(r) == RefSlide(<<g[r][0], g[r][1], g[r][2], g[r][3]>>)
    IN  RefState([r \in 0 .. 3 |-> [c \in 0 .. 3 |-> line(r)[c + 1]]])

RefMoveRight(s) ==
    LET g == RefGrid(s)
        line(r) == RefRev(RefSlide(<<g[r][3], g[r][2], g[r][1], g[r][0]>>))
    IN  RefState([r \in 0 .. 3 |-> [c \in 0 .. 3 |-> line(r)[c + 1]]])

RefMoveUp(s) ==
    LET g == RefGrid(s)
        line(c) == RefSlide(<<g[0][c], g[1][c], g[2][c], g[3][c]>>)
    IN  RefState([r \in 0 .. 3 |-> [c \in 0 .. 3 |-> line(c)[r + 1]]])

RefMoveDown(s) ==
    LET g == RefGrid(s)
        line(c) == RefRev(RefSlide(<<g[3][c], g[2][c], g[1][c], g[0][c]>>))
    IN  RefState([r \in 0 .. 3 |-> [c \in 0 .. 3 |-> line(c)[r + 1]]])

RefSimulate(s) == <<RefMoveLeft(s), RefMoveRight(s), RefMoveUp(s), RefMoveDown(s)>>

\* C2: for every state s, simulate_moves(s) is [LEFT, RIGHT, UP, DOWN] where
\* LEFT slides and merges every row toward col 0, RIGHT toward col 3, UP
\* every column toward row 0, DOWN toward row 3; 0x2000200020002000 gives
\* UP = 0x3000300000000000 and DOWN = 0x0000000030003000.
C2_SimulateMovesDirections ==
    called = "simulate_moves"
        => /\ ret = RefSimulate(state)
           /\ state = St(\h2000, \h2000, \h2000, \h2000)
                 => /\ ret[UP + 1] = St(\h3000, \h3000, 0, 0)
                    /\ ret[DOWN + 1] = St(0, 0, \h3000, \h3000)

\* The pairs (d, simulated[d]) of the directions whose state differs from s.
RefValid(s, simulated) ==
    SelectSeq(<< <<LEFT, simulated[1]>>, <<RIGHT, simulated[2]>>,
                 <<UP, simulated[3]>>, <<DOWN, simulated[4]>> >>,
              LAMBDA p : p[2] # s)

\* C3: get_valid_move_actions(s) lists (d, simulate_moves(s)[d]) for exactly
\* the directions whose simulated state differs from s, in the order LEFT,
\* RIGHT, UP, DOWN; 0x1100000000000000 has exactly the three valid actions
\* LEFT -> 0x2000000000000000, RIGHT -> 0x0002000000000000 and
\* DOWN -> 0x0000000000001100.
C3_ValidMoveActions ==
    called = "get_valid_move_actions"
        => /\ ret = RefValid(state, simulate_moves(tables_built, state))
           /\ \A k \in 1 .. Len(ret) : ret[k][2] # state
           /\ state = St(\h1100, 0, 0, 0)
                 => ret = << <<LEFT, St(\h2000, 0, 0, 0)>>,
                             <<RIGHT, St(\h0002, 0, 0, 0)>>,
                             <<DOWN, St(0, 0, 0, \h1100)>> >>

-----------------------------------------------------------------------------
(* C6, C7 *)

\* C6: every table-dependent operation returns the correct slide results,
\* also when it is called before any Board has been constructed.
C6_FirstUseBuildsTables ==
    /\ called = "_row_left" => ret = RefLeft(row)
    /\ called = "_row_right" => ret = RefRight(row)
    /\ called = "simulate_moves" => ret = RefSimulate(state)
    /\ called = "get_valid_move_actions"
          => ret = RefValid(state, RefSimulate(state))

\* C7: the tables are computed at most once, and once a build has run the
\* flag is set.
C7_TablesBuiltOnce ==
    /\ build_count <= 1
    /\ build_count >= 1 => is_lookup_tables_initialized

-----------------------------------------------------------------------------
(* C8, C9, C10 *)

\* The 16 exponents of a state, most significant nibble first.
RefNibbles(s) ==
    [k \in 1 .. 16 |-> RefUnpack(s[(16 - k) \div 4])[4 - ((16 - k) % 4)]]

\* Sum of 2^exponent over the non-empty nibbles.
RefScore(s) ==
    LET n == RefNibbles(s)
        RECURSIVE sum(_)
        sum(k) == IF k = 0 THEN 0
                  ELSE (IF n[k] # 0 THEN 2 ^ n[k] ELSE 0) + sum(k - 1)
    IN  sum(16)

\* No direction changes the state.
RefTerminal(s) == \A d \in 1 .. 4 : RefSimulate(s)[d] = s

\* t is c with one tile of exponent 1 or 2 put on a cell that is empty in c,
\* or c itself when c has no empty cell.
RefTileAdded(c, t) ==
    LET nc == RefNibbles(c)
        nt == RefNibbles(t)
    IN  IF \A k \in 1 .. 16 : nc[k] # 0
        THEN t = c
        ELSE \E k \in 1 .. 16 :
                /\ nc[k] = 0
                /\ nt[k] \in { 1, 2 }
                /\ \A j \in (1 .. 16) \ { k } : nt[j] = nc[j]

\* The states a player of kind p can hand back on the state s.
RefChosen(s, p) ==
    IF p = "invalid"
    THEN { FullBoard }
    ELSE { RefSimulate(s)[d] : d \in { e \in 1 .. 4 : RefSimulate(s)[e] # s } }

\* play_game has returned (it is the last call, it is not in its loop and
\* it did not raise).
PlayGameReturned == called = "play_game" /\ pc = "idle" /\ raised = "none"

C9_AsClaimed == reset_done => move_count = committed

\* play_move, called by the client, has returned True in this step.
DirectMoveCommitted ==
    /\ pc = "idle"
    /\ called' = "play_move"
    /\ calls' = calls + 1
    /\ raised' = "none"
    /\ ret' = <<TRUE>>

\* play_move, called by play_game's loop, has returned True in this step.
LoopMoveCommitted ==
    /\ pc = "play_game"
    /\ asked'
    /\ raised' # "PlayerError"

\* C9: a play_move on a state that has valid actions asks the player, commits
\* the state the player returns and adds one random tile to it (none when
\* that state has no empty cell), and returns True with move_count as it
\* was; the move counter is incremented by exactly one by play_game's loop
\* after each play_move that returned True, so inside play_game move_count
\* is the number of successful play_move calls since its reset.
C9_PlayGameCountsTheMoves ==
    [][ /\ DirectMoveCommitted
            => /\ asked'
               /\ \E c \in RefChosen(board, player) : RefTileAdded(c, board')
               /\ move_count' = move_count
        /\ LoopMoveCommitted
            => /\ \E c \in RefChosen(board, player) : RefTileAdded(c, board')
               /\ move_count' = move_count + 1
               /\ committed' = committed + 1
        /\ pc' = "play_game" => move_count' = committed'
      ]_vars

\* After a reset, one play_move called by the client has returned True and
\* move_count is still 0.
C9_Witness ==
    /\ called = "play_move"
    /\ raised = "none"
    /\ ret = <<TRUE>>
    /\ reset_done
    /\ committed = 1
    /\ move_count = 0

\* C10: a play_move on a state with no valid actions returns False, does not
\* call the player's choose_action, and leaves the board state and the move
\* counter unchanged; in play_game's loop it ends the loop.
C10_TerminalMoveChangesNothing ==
    [][ RefTerminal(board)
          => /\ (called' = "play_move" /\ calls' = calls + 1)
                  => /\ raised' = "none"
                     /\ ret' = <<FALSE>>
                     /\ ~asked'
                     /\ board' = board
                     /\ move_count' = move_count
             /\ pc = "play_game"
                  => /\ raised' = "none"
                     /\ ~asked'
                     /\ board' = board
                     /\ move_count' = move_count
                     /\ pc' = "idle"
      ]_vars

\* play_move has returned False on the full board 0x1212212112122121 of a
\* game whose player raises whenever it is asked.
C10_Witness ==
    /\ called = "play_move"
    /\ raised = "none"
    /\ ret = <<FALSE>>
    /\ ~asked
    /\ board = Checkerboard
    /\ player = "raises"

-----------------------------------------------------------------------------
(* C11 *)

\* The cells of s that hold a tile, as positions 1 .. 16.
RefTiles(s) == { k \in 1 .. 16 : RefNibbles(s)[k] # 0 }

\* C11: after Game2048.reset(), from any prior game state, the board holds
\* exactly two tiles (14 empty cells), each with exponent 1 or 2, the move
\* counter is 0 and the player is the one the game had before.  (The reset
\* at the start of play_game is the same call.)
C11_ResetGivesTwoTiles ==
    [][ (calls' = calls + 1 /\ called' \in { "reset", "play_game" })
          => /\ Cardinality(RefTiles(board')) = 2
             /\ \A k \in RefTiles(board') : RefNibbles(board')[k] \in { 1, 2 }
             /\ move_count' = 0
             /\ player' = player
      ]_vars

\* reset() has been called on a game that had taken a call before, and the
\* board has a tile of exponent 2 and a tile of exponent 1.
C11_Witness ==
    /\ called = "reset"
    /\ calls = 2
    /\ move_count = 0
    /\ \E j, k \in RefTiles(board) :
          RefNibbles(board)[j] = 1 /\ RefNibbles(board)[k] = 2

-----------------------------------------------------------------------------
(* C12 *)

\* C12: after constructing a Game2048, whether no board, an empty board or
\* an already populated board is supplied, the game's board has at most 14
\* empty cells, that is at least two tiles.
C12_ConstructedBoardHasTwoTiles ==
    calls = 0 => Cardinality(RefTiles(board)) >= 2

-----------------------------------------------------------------------------
(* C13 *)

\* C13: play_game plays the board the game holds: called on a game whose
\* board is in a terminal position, it does not replace the board and counts
\* no move, so that it returns that same state with move_count 0.
C13_PlayGameKeepsTerminalBoard ==
    [][ (calls' = calls + 1 /\ called' = "play_game" /\ RefTerminal(board))
          => /\ board' = board
             /\ move_count' = 0
      ]_vars

-----------------------------------------------------------------------------
(* C14 *)

\* C14: add_random_tile on a board with at least one empty cell changes
\* exactly one nibble, from 0 to exponent 1 or 2, and leaves the other 15
\* nibbles as they were, so the number of empty cells drops by exactly one;
\* on a board with no empty cell it leaves the state unchanged.
C14_AddRandomTileSetsOneEmptyCell ==
    [][ (calls' = calls + 1 /\ called' = "add_random_tile")
          => /\ RefTileAdded(board, board')
             /\ raised' = "none"
             /\ Cardinality(RefTiles(board')) =
                  IF Cardinality(RefTiles(board)) = 16
                  THEN 16
                  ELSE Cardinality(RefTiles(board)) + 1
      ]_vars

\* add_random_tile has put a tile of exponent 2 on the one empty cell of
\* 0xFFFFFFFFFFFFFFF0.
C14_Witness ==
    /\ called = "add_random_tile"
    /\ calls = 1
    /\ board = St(\hFFFF, \hFFFF, \hFFFF, \hFFF2)

-----------------------------------------------------------------------------
(* C15 *)

\* C15: when the player's choose_action returns a pair that is not one of
\* the valid moves it was given (the player of kind "invalid" returns the
\* state 0xFFFFFFFFFFFFFFFF), the step raises an error, the returned state
\* is not committed to the board and no tile is added.
C15_InvalidChoiceRejected ==
    [][ (player = "invalid" /\ asked')
          => /\ raised' # "none"
             /\ board' = board
      ]_vars

-----------------------------------------------------------------------------
(* C16 *)

\* C16: an exception raised inside the player's choose_action comes out of
\* play_move and of play_game as it was raised: the loop of play_game ends
\* without another decision, and the board state and the move counter are
\* what they were before the failing step.
C16_PlayerExceptionPropagates ==
    [][ (player = "raises" /\ asked')
          => /\ raised' = "PlayerError"
             /\ board' = board
             /\ move_count' = move_count
             /\ committed' = committed
             /\ pc' = "idle"
      ]_vars

\* play_game has been aborted by the player's exception on the first
\* decision, with the two tiles of the reset on the board.
C16_Witness ==
    /\ called = "play_game"
    /\ player = "raises"
    /\ interface = "lenient"
    /\ raised = "PlayerError"
    /\ pc = "idle"
    /\ asked
    /\ move_count = 0
    /\ Cardinality(RefTiles(board)) = 2

-----------------------------------------------------------------------------
(* C17, C18 *)

\* C17: during play_game with an interface attached, the initial-board
\* notification carries the initial state and the score, every update
\* carries the state, the move count and the score, and no update call is
\* made with an argument missing.
C17_InterfaceNotified ==
    /\ note.call = "display_initial_board" => note.args = { "state", "score" }
    /\ note.call = "update"
          => /\ note.args = { "state", "move_count", "score" }
             /\ raised # "TypeError"

\* C18: play_game on a game constructed with interface=None does not raise:
\* it is in its loop or has returned the tuple of the terminal state.
C18_PlayGameWithoutInterface ==
    (called = "play_game" /\ interface = "none")
        => /\ raised = "none"
           /\ pc = "idle" => RefTerminal(board) /\ ret[2] = board

-----------------------------------------------------------------------------
(* C19 *)

\* C19: Board.set_tile(state, row, col, value) on a state in [0, 2**64)
\* raises nothing but ValueError; with the verifiers on it raises exactly
\* when row or col is outside 0..3, value is outside 0..15 or the target
\* nibble is not zero, and a value out of range on an occupied cell is
\* reported as the value error; an occupied cell in range raises with the
\* verifiers off as well; a call that returns gives a state whose nibbles
\* are those of the input except nibble (3-row)*4+(3-col), which holds
\* value, so that get_unpacked_state(result)[4*row+col] = value.
C19_SetTileContract ==
    (called = "set_tile" /\ args.state.kind = "int") =>
        LET s == args.state.val
            r == args.row
            c == args.col
            value == args.value
            cell_ok == r \in 0 .. 3 /\ c \in 0 .. 3
            value_ok == value \in 0 .. 15
            occupied == cell_ok /\ RefNibbles(s)[4 * r + c + 1] # 0
            i == (3 - r) * 4 + (3 - c)
        IN  /\ raised \in { "none", "ValueError" }
            /\ verifiers = "checks" =>
                  (raised = "ValueError" <=> (~cell_ok \/ ~value_ok \/ occupied))
            /\ (occupied /\ value_ok) => raised = "ValueError"
            /\ (verifiers = "checks" /\ occupied /\ ~value_ok) =>
                  (raised = "ValueError" /\ ret = "Value must be between 0 and 15.")
            /\ raised = "none" =>
                  /\ \A k \in 1 .. 16 :
                        RefNibbles(ret)[k] =
                            IF k = 16 - i THEN value ELSE RefNibbles(s)[k]
                  /\ get_unpacked_state(ret)[4 * r + c + 1] = value

\* set_tile has been called with the verifiers off on the cell (1, 2) of
\* the board of test_set_tile_3, which holds a tile, and has raised.
C19_Witness ==
    /\ called = "set_tile"
    /\ verifiers = "noop"
    /\ args.state = IntState(St(0, \h0020, 0, 0))
    /\ args.row = 1
    /\ args.col = 2
    /\ raised = "ValueError"

-----------------------------------------------------------------------------
(* C20 *)

\* The operations of Board that take a state.
RefStateOps ==
    { "Board", "set_state", "simulate_moves", "get_valid_move_actions",
      "get_empty_tiles", "get_unpacked_state", "set_tile", "pretty_print" }

\* The exception owed to a value that is no state.
RefRejection(kind) ==
    IF kind = "negative" THEN "ValueError"
    ELSE IF kind = "too_big" THEN "OverflowError"
    ELSE "TypeError"

\* C20 as stated: with the verifiers on, every operation that takes a state
\* raises TypeError on a value that is no int (None among them), ValueError
\* on a negative int and OverflowError on an int of 2**64 or more, and the
\* rejected call leaves the board's state and the cache as they were.
C20_AsClaimed ==
    [][ ( /\ verifiers = "checks"
          /\ called' \in RefStateOps
          /\ args'.state.kind # "int" )
        => ( /\ raised' = RefRejection(args'.state.kind)
             /\ board' = board
             /\ empty_cells' = empty_cells ) ]_vars

\* C20: with the verifiers on, every operation that takes a state raises
\* TypeError on a str or a float, and on None unless the operation is the
\* constructor, ValueError on a negative int and OverflowError on an int of
\* 2**64 or more; the rejected call leaves the board's state and the cache
\* as they were.  Board(None) raises nothing: it is Board().
C20_InvalidStateRejected ==
    [][ ( /\ verifiers = "checks"
          /\ called' \in RefStateOps
          /\ args'.state.kind # "int" )
        => IF called' = "Board" /\ args'.state.kind = "None"
           THEN raised' = "none" /\ board' = St(0, 0, 0, 0)
           ELSE /\ raised' = RefRejection(args'.state.kind)
                /\ board' = board
                /\ empty_cells' = empty_cells ]_vars

\* set_state has turned down 2**64 on a board that holds tiles, with a
\* state in the cache.
C20_Witness ==
    /\ called = "set_state"
    /\ verifiers = "checks"
    /\ args.state.kind = "too_big"
    /\ raised = "OverflowError"
    /\ board = St(\h1100, 0, 0, 0)
    /\ empty_cells # {}

-----------------------------------------------------------------------------
(* C21 *)

\* C21: every call of enable_verifiers returns without raising and leaves
\* the checking verifiers in place, whatever calls of disable_verifiers and
\* enable_verifiers came before it.
C21_EnableRestoresValidation ==
    called = "enable_verifiers" => (raised = "none" /\ verifiers = "checks")

-----------------------------------------------------------------------------
(* C22, C23, C29 *)

\* The (row, col) of the zero nibbles of s in row-major order.
RefEmptyTiles(s) ==
    LET n == RefNibbles(s)
        RECURSIVE from(_)
        from(k) == IF k > 16 THEN <<>>
                   ELSE (IF n[k] = 0 THEN << <<(k - 1) \div 4, (k - 1) % 4>> >>
                         ELSE <<>>) \o from(k + 1)
    IN  from(1)

\* C22: whatever calls of get_empty_tiles, get_empty_cells and Board.reset
\* came before, get_empty_tiles(s) returns the (index // 4, index % 4) of
\* the zero nibbles of s in row-major order, 16 of them for state 0 and none
\* for 0xFFFFFFFFFFFFFFFF; every entry of the cache maps its state to that
\* list; the list returned is the entry the cache holds for s after the
\* call; Board.reset leaves the cache empty.
C22_EmptyTilesAndCache ==
    /\ \A e \in empty_cells : e[2] = RefEmptyTiles(e[1])
    /\ (called = "get_empty_tiles" /\ raised = "none") =>
          /\ ret = RefEmptyTiles(args.state.val)
          /\ <<args.state.val, ret>> \in empty_cells
          /\ args.state.val = St(0, 0, 0, 0) => Len(ret) = 16
          /\ args.state.val = FullBoard => Len(ret) = 0
    /\ called = "Board.reset" => empty_cells = {}

\* get_empty_tiles has answered for a board with two tiles while the cache
\* held entries of other states.
C22_Witness ==
    /\ called = "get_empty_tiles"
    /\ raised = "none"
    /\ args.state.val = St(\h1100, 0, 0, 0)
    /\ Len(ret) = 14
    /\ Cardinality(empty_cells) >= 3

\* C23: when a new game starts (reset, or play_game through its reset) the
\* cache holds no entry left over from earlier: every entry is of a state
\* the reset itself looked at, a board with at most one tile.
C23_CacheClearedBetweenGames ==
    [][ (calls' = calls + 1 /\ called' \in { "reset", "play_game" })
        => \A e \in empty_cells' : Cardinality(RefTiles(e[1])) <= 1 ]_vars

\* C29: get_empty_cells(state) returns the list of the empty (row, col) of
\* the state, the value of get_empty_tiles(state), whether or not the state
\* has an entry in the cache.
C29_GetEmptyCellsReturnsTheList ==
    (called = "get_empty_cells" /\ raised = "none")
        => (ret.type = "list" /\ ret.value = RefEmptyTiles(args.state.val))

-----------------------------------------------------------------------------
(* C24, C25, C30 *)

\* C24: on every list of valid moves that is not empty,
\* ExpectimaxPlayer(depth=0).choose_action returns the pair that
\* HeuristicPlayer().choose_action returns.
C24_ExpectimaxDepth0IsHeuristic ==
    called = "ExpectimaxPlayer.choose_action"
        => ret = HeuristicPlayer_choose_action(valid_actions_now)

\* The action a typed string stands for, -1 when it stands for none.
RefKeyAction(k) ==
    IF k \in { "a", "A" } THEN LEFT
    ELSE IF k \in { "d", "D" } THEN RIGHT
    ELSE IF k \in { "w", "W" } THEN UP
    ELSE IF k \in { "s", "S" } THEN DOWN
    ELSE -1

\* The pairs of a list.
RefEntries(list) == { list[k] : k \in 1 .. Len(list) }

\* C25: at its prompt HumanPlayer.choose_action returns exactly when the
\* string typed stands for an action of the valid-move list, and then it
\* returns a pair of the list with that action; on any other string it
\* returns nothing and is at its prompt again.
C25_HumanChoiceIsValidated ==
    [][ (pc = "input" /\ args'.op = "input")
        => LET action == RefKeyAction(args'.key)
               list == valid_actions_now
           IN  IF \E p \in RefEntries(list) : p[1] = action
               THEN /\ pc' = "idle"
                    /\ ret' \in RefEntries(list)
                    /\ ret'[1] = action
               ELSE pc' = "input" ]_vars

\* The user has typed "S" on a board whose tiles can move down and
\* choose_action has returned DOWN with its state.
C25_Witness ==
    /\ called = "HumanPlayer.choose_action"
    /\ pc = "idle"
    /\ args = [op |-> "input", key |-> "S"]
    /\ state = St(\h1100, 0, 0, 0)
    /\ ret = <<DOWN, St(0, 0, 0, \h1100)>>

\* C30: given the valid moves of a state, MinMaxPlayer.choose_action returns
\* the first pair of the list, the first valid direction in the order LEFT,
\* RIGHT, UP, DOWN, and all pairs of the list have states of the same sum of
\* 2^exponent.
C30_MinMaxReturnsFirstMove ==
    called = "MinMaxPlayer.choose_action"
        => LET list == valid_actions_now
           IN  /\ ret = list[1]
               /\ \A d \in 0 .. 3 :
                     (\E p \in RefEntries(list) : p[1] = d) => ret[1] <= d
               /\ \A p \in RefEntries(list) : RefScore(p[2]) = RefScore(ret[2])

\* MinMaxPlayer has chosen on a board with three valid moves, tables built.
C30_Witness ==
    /\ called = "MinMaxPlayer.choose_action"
    /\ tables_built
    /\ state = St(\h1100, 0, 0, 0)
    /\ ret = <<LEFT, St(\h2000, 0, 0, 0)>>

-----------------------------------------------------------------------------
(* C27, C28, C26 *)

\* C27: each of the four results of simulate_moves(s) has the sum of
\* 2^exponent of s and at most as many tiles as s.
C27_MovesPreserveTheSum ==
    called = "simulate_moves"
        => \A d \in 1 .. 4 :
              /\ RefScore(ret[d]) = RefScore(state)
              /\ Cardinality(RefTiles(ret[d])) <= Cardinality(RefTiles(state))

C26_PlayGameReachesTerminalState ==
    (called = "play_game" /\ player \in { "first", "random" })
        ~> RefTerminal(board)

====
